---- MODULE Spec2Model ----
(***************************************************************************)
(* Model of docs/conf.py of hyperion_mpl: the Sphinx configuration module. *)
(* Sphinx loads the file by executing its module body in a fresh           *)
(* namespace; the names bound when the body ends are the configuration.    *)
(* The body is a straight line of statements: two imports, one expression  *)
(* statement that calls subprocess.call("doxygen Doxyfile", shell=True),   *)
(* and nineteen assignments of literals.                                   *)
(*                                                                         *)
(* A load is modelled statement by statement.  Several loads (separate     *)
(* builds, each with its own namespace) run side by side so that loads     *)
(* whose call returns different statuses can be compared.                  *)
(***************************************************************************)
EXTENDS Integers, Sequences, FiniteSets, TLC

\* The loads of the configuration file that are followed.  Loads share no
\* state (each has its own namespace and its own child), and the properties
\* below compare at most two of them, so a pair is followed.
Loads == {1, 2}

\* With shell=True the child subprocess.call starts and waits for is
\* /bin/sh -c "doxygen Doxyfile"; the shell in turn runs doxygen and waits
\* for it.  Doxygen's exit codes are followed over 0..MaxStatus and 255 (the
\* largest), the signals that kill a process over 1..MaxSignal and 9
\* (SIGKILL).
MaxStatus == 1
MaxSignal == 1

ExitCodes == (0 .. MaxStatus) \cup {255}
Signals == (1 .. MaxSignal) \cup {9}

\* How a process ended, as its parent collects it: the exit code c >= 0, or
\* -N when signal N killed it (the convention of Popen.returncode).
WaitStatuses == ExitCodes \cup { -n : n \in Signals }

\* The exit code of sh -c "cmd" after cmd ended with wait status w: cmd's
\* own exit code, or 128 + N when signal N killed cmd.
ShellStatus(w) == IF w >= 0 THEN w ELSE 128 - w

\* The exit code of the shell when it finds no doxygen to run.
CommandNotFound == 127

\* The values subprocess.call can return on line 11: the shell's exit code,
\* or -N when the shell itself was killed by signal N.
Statuses ==
    { ShellStatus(w) : w \in WaitStatuses }
        \cup {CommandNotFound}
        \cup { -n : n \in Signals }

-----------------------------------------------------------------------------
(* Python values.  Every value carries its type, as type(x) does in        *)
(* Python; a str is kept as a TLA+ string, whose characters SubSeq reaches. *)

PyStr(s) == [type |-> "str", v |-> s]
PyInt(n) == [type |-> "int", v |-> n]
PyBool(b) == [type |-> "bool", v |-> b]
PyList(items) == [type |-> "list", v |-> items]
PyTuple(items) == [type |-> "tuple", v |-> items]
PyDict(items) == [type |-> "dict", v |-> items]
PyModule(name) == [type |-> "module", v |-> name]
PyClass(name) == [type |-> "type", v |-> name]

\* A list display whose elements are all string literals: ["a", "b"].
StrList(ss) == PyList([i \in DOMAIN ss |-> PyStr(ss[i])])

\* A parenthesized expression without a comma, (e): Python evaluates it to
\* the value of e itself; only a comma makes a tuple.
Paren(e) == e

\* iter(x): the sequence of items a for loop over x yields.  A str yields
\* its characters, each a str of length one; a list or a tuple yields its
\* elements in order.
Iterate(x) ==
    IF x.type = "str"
    THEN [i \in 1..Len(x.v) |-> PyStr(SubSeq(x.v, i, i))]
    ELSE x.v

-----------------------------------------------------------------------------
(* The literals of the module body, under the names the source gives them. *)

project == PyStr("hyperion::mpl")
copyright == PyStr("2024, Braxton Salyer <braxtonsalyer@gmail.com>")
author == PyStr("Braxton Salyer <braxtonsalyer@gmail.com>")

extensions ==
    StrList(<< "sphinx.ext.autodoc",
               "sphinx.ext.autosummary",
               "sphinx.ext.intersphinx",
               "sphinx.ext.autosectionlabel",
               "sphinx.ext.todo",
               "sphinx.ext.coverage",
               "sphinx.ext.mathjax",
               "sphinx.ext.ifconfig",
               "sphinx.ext.viewcode",
               "sphinx.ext.inheritance_diagram",
               "sphinx_sitemap",
               "breathe",
               "myst_parser" >>)

myst_enable_extensions ==
    StrList(<< "amsmath",
               "colon_fence",
               "deflist",
               "dollarmath",
               "fieldlist",
               "html_admonition",
               "html_image",
               "linkify",
               "replacements",
               "smartquotes",
               "strikethrough",
               "substitution",
               "tasklist" >>)

templates_path == StrList(<< "_templates" >>)

exclude_patterns_without_build == StrList(<< "Thumbs.db", ".DS_Store" >>)
exclude_patterns == StrList(<< "_build", "Thumbs.db", ".DS_Store" >>)

highlight_language == PyStr("c++")

autosummary_generate == PyBool(TRUE)
html_baseurl == PyStr("braxtons12.github.io/hyperion_mpl")
html_theme == PyStr("pydata_sphinx_theme")

html_theme_options ==
    PyDict(   ("github_url" :> PyStr("https://github.com/braxtons12/hyperion_mpl"))
         @@ ("header_links_before_dropdown" :> PyInt(8))
         @@ ("show_toc_level" :> PyInt(1))
         @@ ("navigation_depth" :> PyInt(2))
         @@ ("show_nav_level" :> PyInt(0))
         @@ ("pygment_light_style" :> PyStr("manni"))
         @@ ("pygment_dark_style" :> PyStr("one-dark"))
         @@ ("navbar_start" :> StrList(<< "navbar-logo", "theme-switcher" >>))
         @@ ("navbar_center" :> StrList(<< "navbar-nav" >>))
         @@ ("navbar_end" :> StrList(<< "navbar-icon-links" >>))
         @@ ("secondary_sidebar_items" :> StrList(<< "page-toc" >>))
         @@ ("footer_items" :>
                StrList(<< "copyright", "last-updated", "sphinx-version" >>)))

html_sidebars ==
    PyDict("**" :> StrList(<< "search-field", "navbar-nav", "sidebar-nav-bs",
                            "sidebar-ethical-ads" >>))

html_context == PyDict("default_mode" :> PyStr("dark"))

html_static_path == StrList(<< "_static" >>)

rst_prolog ==
    PyStr("\n.. role:: cpp(code)\n    :language: cpp\n    :class: highlight\n"
        \o "\n.. role:: rust(code)\n    :language: rust\n    :class: highlight\n"
        \o "\n.. role:: cmake(code)\n    :language: cmake\n    :class: highlight\n"
        \o "\n.. role:: bash(code)\n    :language: bash\n    :class: highlight\n"
        \o "\n.. role:: lua(code)\n    :language: lua\n    :class: highlight\n"
        \o "\n.. role:: xmake(code)\n    :language: lua\n    :class: highlight\n")

breathe_projects == PyDict("hyperion::mpl" :> PyStr("_build/xml"))

breathe_default_project_other == PyStr("hyperion_mpl")
breathe_default_project == PyStr("hyperion::mpl")

breathe_default_members == Paren(PyStr("members"))

\* The command line handed to the shell.
DoxygenCommand == "doxygen Doxyfile"

-----------------------------------------------------------------------------
(* Expressions and statements of the module body.                          *)

Lit(val) == [e |-> "lit", val |-> val]
Name(id) == [e |-> "name", id |-> id]
\* subprocess.call(cmd, shell=True): looks the module up under `mod`.
Call(mod, cmd) == [e |-> "call", id |-> mod, cmd |-> cmd, shell |-> TRUE]

ImportStmt(line, bound) == [kind |-> "import", line |-> line, bound |-> bound]
ExprStmt(line, expr) == [kind |-> "expr", line |-> line, expr |-> expr]
AssignStmt(line, target, expr) ==
    [kind |-> "assign", line |-> line, target |-> target, expr |-> expr]

\* Lines 9-10: the names the two import statements bind.
Imports ==
    << ImportStmt(9, "StandaloneHTMLBuilder" :>
                        PyClass("sphinx.builders.html.StandaloneHTMLBuilder")),
       ImportStmt(10, ("subprocess" :> PyModule("subprocess"))
                      @@ ("os" :> PyModule("os"))) >>

\* Line 11: the call statement; its value is not bound to any name.
CallStmt == ExprStmt(11, Call("subprocess", DoxygenCommand))

\* Lines 13-117: the assignments, in file order.
Assignments ==
    << AssignStmt(13, "project", Lit(project)),
       AssignStmt(14, "copyright", Lit(copyright)),
       AssignStmt(15, "author", Lit(author)),
       AssignStmt(22, "extensions", Lit(extensions)),
       AssignStmt(37, "myst_enable_extensions", Lit(myst_enable_extensions)),
       AssignStmt(53, "templates_path", Lit(templates_path)),
       AssignStmt(54, "exclude_patterns", Lit(exclude_patterns)),
       AssignStmt(56, "highlight_language", Lit(highlight_language)),
       AssignStmt(61, "autosummary_generate", Lit(autosummary_generate)),
       AssignStmt(62, "html_baseurl", Lit(html_baseurl)),
       AssignStmt(63, "html_theme", Lit(html_theme)),
       AssignStmt(64, "html_theme_options", Lit(html_theme_options)),
       AssignStmt(80, "html_sidebars", Lit(html_sidebars)),
       AssignStmt(83, "html_context", Lit(html_context)),
       AssignStmt(86, "html_static_path", Lit(html_static_path)),
       AssignStmt(87, "rst_prolog", Lit(rst_prolog)),
       AssignStmt(113, "breathe_projects", Lit(breathe_projects)),
       AssignStmt(116, "breathe_default_project", Lit(breathe_default_project)),
       AssignStmt(117, "breathe_default_members", Lit(breathe_default_members)) >>

\* Variants of the module body used to test the properties below.
ProgramCallTwice == Imports \o << CallStmt, CallStmt >> \o Assignments
ProgramCallLast == Imports \o Assignments \o << CallStmt >>
ProgramReassign ==
    Imports \o << CallStmt >> \o Assignments
        \o << AssignStmt(117, "html_theme", Lit(PyStr("alabaster"))) >>

\* The module body of conf.py.
Program == Imports \o << CallStmt >> \o Assignments

\* The configuration names: the targets of the assignments.
ConfigNames == { Assignments[i].target : i \in DOMAIN Assignments }

-----------------------------------------------------------------------------
(* Evaluation.                                                             *)

\* The value of a literal or of a name in namespace env.
Eval(expr, env) ==
    IF expr.e = "name" THEN env[expr.id] ELSE expr.val

\* The names whose values evaluating expr reads.
NamesRead(expr) ==
    IF expr.e \in {"name", "call"} THEN {expr.id} ELSE {}

\* env with name bound to val (a rebinding replaces the old value).
Bind(env, name, val) ==
    [n \in DOMAIN env \cup {name} |-> IF n = name THEN val ELSE env[n]]

\* env with every name of `bound` bound to its value.
BindAll(env, bound) ==
    [n \in DOMAIN env \cup DOMAIN bound |->
        IF n \in DOMAIN bound THEN bound[n] ELSE env[n]]

\* subprocess.check_call: raises CalledProcessError on a non-zero status.
CheckCallResult(status) == [raised |-> status # 0, value |-> PyInt(status)]
\* subprocess.call: waits for the child and returns its exit status as an
\* int; a non-zero status raises nothing.
CallResult(status) == [raised |-> FALSE, value |-> PyInt(status)]

\* An expression statement that kept its value: status = subprocess.call(...).
ExprStmtKeep(env, val) == Bind(env, "status", val)
\* An expression statement evaluates its expression and drops the value:
\* the namespace is left as it was.
ExprStmtEffect(env, val) == env

-----------------------------------------------------------------------------
VARIABLES
    pc,        \* pc[l]: index in Program of the next statement of load l
    ns,        \* ns[l]: the module namespace of load l, name -> value
    child,     \* child[l]: "none", "running" or "exited": the shell child
    doxygen,   \* doxygen[l]: "none", "running" or "exited": the doxygen
               \* process the shell runs
    collected, \* collected[l]: the wait statuses of doxygen the shell has
               \* collected, in order
    spawned,   \* spawned[l]: the command lines load l has started, in order
    status,    \* status[l]: the returncodes of load l's shell children, in order
    raised,    \* raised[l]: an exception left the module body
    log,       \* log[l]: the assignments executed, <<target, value>> in order
    reads      \* reads[l]: the names read by the assignments' right sides

vars ==
    << pc, ns, child, doxygen, collected, spawned, status, raised, log, reads >>

End == Len(Program) + 1

\* The statement load l is at.
Stmt(l) == Program[pc[l]]

Running(l) == pc[l] < End /\ ~raised[l]

\* "loading" until the body ends, then "ok"; "failed" once it has raised.
Outcome(l) ==
    IF raised[l] THEN "failed"
    ELSE IF pc[l] = End THEN "ok" ELSE "loading"

Init ==
    /\ pc = [l \in Loads |-> 1]
    /\ ns = [l \in Loads |-> << >>]
    /\ child = [l \in Loads |-> "none"]
    /\ doxygen = [l \in Loads |-> "none"]
    /\ collected = [l \in Loads |-> << >>]
    /\ spawned = [l \in Loads |-> << >>]
    /\ status = [l \in Loads |-> << >>]
    /\ raised = [l \in Loads |-> FALSE]
    /\ log = [l \in Loads |-> << >>]
    /\ reads = [l \in Loads |-> {}]

\* An import statement binds its names.
Import(l) ==
    /\ Running(l)
    /\ Stmt(l).kind = "import"
    /\ ns' = [ns EXCEPT ![l] = BindAll(@, Stmt(l).bound)]
    /\ pc' = [pc EXCEPT ![l] = @ + 1]
    /\ UNCHANGED << child, doxygen, collected, spawned, status, raised, log, reads >>

\* subprocess.call, first half: the shell child is started with the command.
Spawn(l) ==
    /\ Running(l)
    /\ Stmt(l).kind = "expr"
    /\ Stmt(l).expr.e = "call"
    /\ Stmt(l).expr.id \in DOMAIN ns[l]
    /\ child[l] = "none"
    /\ child' = [child EXCEPT ![l] = "running"]
    /\ spawned' = [spawned EXCEPT ![l] = Append(@, Stmt(l).expr.cmd)]
    /\ UNCHANGED << pc, ns, doxygen, collected, status, raised, log, reads >>

\* The shell starts doxygen.
DoxygenStart(l) ==
    /\ child[l] = "running"
    /\ doxygen[l] = "none"
    /\ doxygen' = [doxygen EXCEPT ![l] = "running"]
    /\ UNCHANGED << pc, ns, child, collected, spawned, status, raised, log, reads >>

\* Doxygen ends with wait status w.  The shell collects w if it is still
\* there; a doxygen that outlived its shell is collected by nobody the load
\* knows of.
DoxygenExit(l, w) ==
    /\ doxygen[l] = "running"
    /\ doxygen' = [doxygen EXCEPT ![l] = "exited"]
    /\ collected' = [collected EXCEPT ![l] =
                        IF child[l] = "running" THEN Append(@, w) ELSE @]
    /\ UNCHANGED << pc, ns, child, spawned, status, raised, log, reads >>

\* The shell, having waited for doxygen, exits with the status it derives
\* from doxygen's.
ShellExit(l) ==
    /\ child[l] = "running"
    /\ doxygen[l] = "exited"
    /\ child' = [child EXCEPT ![l] = "exited"]
    /\ status' = [status EXCEPT ![l] =
                    Append(@, ShellStatus(collected[l][Len(collected[l])]))]
    /\ UNCHANGED << pc, ns, doxygen, collected, spawned, raised, log, reads >>

\* The shell finds no doxygen to run and exits with 127.
ShellNoDoxygen(l) ==
    /\ child[l] = "running"
    /\ doxygen[l] = "none"
    /\ child' = [child EXCEPT ![l] = "exited"]
    /\ status' = [status EXCEPT ![l] = Append(@, CommandNotFound)]
    /\ UNCHANGED << pc, ns, doxygen, collected, spawned, raised, log, reads >>

\* Signal n kills the shell, whatever doxygen is doing: the returncode is
\* -n, and a running doxygen goes on running.
ShellKilled(l, n) ==
    /\ child[l] = "running"
    /\ child' = [child EXCEPT ![l] = "exited"]
    /\ status' = [status EXCEPT ![l] = Append(@, -n)]
    /\ UNCHANGED << pc, ns, doxygen, collected, spawned, raised, log, reads >>

\* subprocess.call, second half: the wait ends once the shell has exited,
\* and the statement completes with the call's value.
Wait(l) ==
    /\ Running(l)
    /\ Stmt(l).kind = "expr"
    /\ Stmt(l).expr.e = "call"
    /\ child[l] = "exited"
    /\ LET res == CallResult(status[l][Len(status[l])])
       IN  /\ raised' = [raised EXCEPT ![l] = res.raised]
           /\ pc' = [pc EXCEPT ![l] = IF res.raised THEN @ ELSE @ + 1]
           /\ ns' = [ns EXCEPT ![l] =
                        IF res.raised THEN @ ELSE ExprStmtEffect(@, res.value)]
    /\ child' = [child EXCEPT ![l] = "none"]
    /\ UNCHANGED << doxygen, collected, spawned, status, log, reads >>

\* An assignment statement evaluates its right side and binds its target.
Assign(l) ==
    /\ Running(l)
    /\ Stmt(l).kind = "assign"
    /\ LET val == Eval(Stmt(l).expr, ns[l])
       IN  /\ ns' = [ns EXCEPT ![l] = Bind(@, Stmt(l).target, val)]
           /\ log' = [log EXCEPT ![l] = Append(@, << Stmt(l).target, val >>)]
    /\ reads' = [reads EXCEPT ![l] = @ \cup NamesRead(Stmt(l).expr)]
    /\ pc' = [pc EXCEPT ![l] = @ + 1]
    /\ UNCHANGED << child, doxygen, collected, spawned, status, raised >>

Next ==
    \E l \in Loads :
        \/ Import(l)
        \/ Spawn(l)
        \/ DoxygenStart(l)
        \/ \E w \in WaitStatuses : DoxygenExit(l, w)
        \/ ShellExit(l)
        \/ ShellNoDoxygen(l)
        \/ \E n \in Signals : ShellKilled(l, n)
        \/ Wait(l)
        \/ Assign(l)

Spec == Init /\ [][Next]_vars

-----------------------------------------------------------------------------
(* Properties.                                                             *)

\* Load l has run its module body to the end.
Loaded(l) == Outcome(l) = "ok"

\* The keys of a dict value.
Keys(d) == DOMAIN d.v

\* The components of a path, split at "/", scanning s from position i with
\* the component read so far in cur.
RECURSIVE PathParts(_, _, _)
PathParts(s, i, cur) ==
    IF i > Len(s) THEN << cur >>
    ELSE IF SubSeq(s, i, i) = "/"
         THEN << cur >> \o PathParts(s, i + 1, "")
         ELSE PathParts(s, i + 1, cur \o SubSeq(s, i, i))

\* path lies under directory dir: dir's components are a proper prefix of
\* path's components.
Under(path, dir) ==
    LET p == PathParts(path, 1, "")
        d == PathParts(dir, 1, "")
    IN  /\ Len(d) < Len(p)
        /\ SubSeq(p, 1, Len(d)) = d

\* C1: every load starts at most one subprocess, each one started is the
\* command "doxygen Doxyfile", and a load that ran to completion started
\* exactly one.
C1_DoxygenInvokedExactlyOnce ==
    \A l \in Loads :
        /\ Len(spawned[l]) <= 1
        /\ \A i \in DOMAIN spawned[l] : spawned[l][i] = "doxygen Doxyfile"
        /\ Loaded(l) => Len(spawned[l]) = 1

C1_Witness ==
    \E l \in Loads : Loaded(l) /\ spawned[l] = << "doxygen Doxyfile" >>

\* Load l has bound one of the names Breathe reads.
BreatheDefined(l) ==
    {"breathe_projects", "breathe_default_project"} \cap DOMAIN ns[l] # {}

\* C2 as stated: whenever breathe_projects or breathe_default_project is
\* defined in a load, the call has been made and has returned, and Doxygen
\* is not running any more.
C2_DoxygenNotRunningOnceBreatheDefined ==
    \A l \in Loads :
        BreatheDefined(l)
            => /\ spawned[l] = << "doxygen Doxyfile" >>
               /\ Len(status[l]) = 1
               /\ child[l] = "none"
               /\ doxygen[l] # "running"

\* C2 as amended: whenever breathe_projects or breathe_default_project is
\* defined in a load, the call has been made and has returned (the shell it
\* waits for has exited); and if the status it returned is not negative (no
\* signal killed the shell), Doxygen is not running any more.
C2_CallReturnedBeforeBreathe ==
    \A l \in Loads :
        BreatheDefined(l)
            => /\ spawned[l] = << "doxygen Doxyfile" >>
               /\ Len(status[l]) = 1
               /\ child[l] = "none"
               /\ status[l][1] >= 0 => doxygen[l] # "running"

C2_Witness ==
    \E l \in Loads :
        /\ "breathe_projects" \in DOMAIN ns[l]
        /\ "breathe_default_project" \in DOMAIN ns[l]
        /\ Len(status[l]) = 1
        /\ status[l][1] >= 0
        /\ doxygen[l] = "exited"
        /\ ns[l]["breathe_projects"].v["hyperion::mpl"].v = "_build/xml"

\* C3 as stated: a load that has ended has failed exactly when its Doxygen
\* child returned a non-zero status.
C3_FailsIffNonZeroStatus ==
    \A l \in Loads :
        (Outcome(l) # "loading" /\ Len(status[l]) = 1)
            => ((Outcome(l) = "failed") <=> (status[l][1] # 0))

\* C3 as amended: no load fails, whatever status its Doxygen child returned;
\* a load that has ended saw exactly one status, zero or not, and has every
\* configuration name defined.
C3_LoadSucceedsWhateverStatus ==
    \A l \in Loads :
        /\ Outcome(l) # "failed"
        /\ Loaded(l) => /\ Len(status[l]) = 1
                        /\ ConfigNames \subseteq DOMAIN ns[l]

C3_Witness ==
    \E l \in Loads :
        /\ Loaded(l)
        /\ Len(status[l]) = 1
        /\ status[l][1] # 0
        /\ ConfigNames \subseteq DOMAIN ns[l]

\* C4: after a load, breathe_default_project is a key of breathe_projects,
\* breathe_projects has exactly one entry, and its key is the value of
\* project, "hyperion::mpl".
C4_BreatheProjectNamesAgree ==
    \A l \in Loads :
        Loaded(l) =>
            /\ ns[l]["breathe_default_project"].type = "str"
            /\ ns[l]["breathe_default_project"].v \in Keys(ns[l]["breathe_projects"])
            /\ Cardinality(Keys(ns[l]["breathe_projects"])) = 1
            /\ Keys(ns[l]["breathe_projects"]) = {ns[l]["project"].v}
            /\ ns[l]["project"].v = "hyperion::mpl"

C4_Witness ==
    \E l \in Loads :
        /\ Loaded(l)
        /\ Keys(ns[l]["breathe_projects"]) = {"hyperion::mpl"}
        /\ ns[l]["breathe_default_project"].v = "hyperion::mpl"

\* C5 as stated: after a load, breathe_default_members is a tuple, and
\* iterating it yields exactly one item, the string "members".
C5_DefaultMembersIsOneElementTuple ==
    \A l \in Loads :
        Loaded(l) =>
            /\ ns[l]["breathe_default_members"].type = "tuple"
            /\ Iterate(ns[l]["breathe_default_members"]) = << PyStr("members") >>

\* C6: in every load no configuration name is assigned twice, every name
\* assigned is still bound to the value it was assigned (never rebound,
\* never deleted), no assignment has read a name, and a load that ran to
\* completion has assigned every configuration name.
C6_AssignedOnceNeverRead ==
    \A l \in Loads :
        /\ \A i, j \in DOMAIN log[l] : i # j => log[l][i][1] # log[l][j][1]
        /\ \A i \in DOMAIN log[l] :
              /\ log[l][i][1] \in DOMAIN ns[l]
              /\ ns[l][log[l][i][1]] = log[l][i][2]
        /\ reads[l] = {}
        /\ Loaded(l) => { log[l][i][1] : i \in DOMAIN log[l] } = ConfigNames

C6_Witness ==
    \E l \in Loads :
        /\ Loaded(l)
        /\ Len(log[l]) = Cardinality(ConfigNames)
        /\ Len(log[l]) > 1

\* C7: any two loads that have ended and whose Doxygen children returned
\* different exit statuses hold identical namespaces.
C7_ConfigIndependentOfStatus ==
    \A l1, l2 \in Loads :
        ( /\ Outcome(l1) # "loading"
          /\ Outcome(l2) # "loading"
          /\ status[l1] # status[l2] )
            => ns[l1] = ns[l2]

C7_Witness ==
    \E l1, l2 \in Loads :
        /\ Loaded(l1)
        /\ Loaded(l2)
        /\ status[l1] = << 0 >>
        /\ Len(status[l2]) = 1
        /\ status[l2][1] # 0
        /\ ns[l1] = ns[l2]

\* C8: after a load, the path of every entry of breathe_projects lies under
\* some directory listed in exclude_patterns.
C8_XmlDirectoryExcluded ==
    \A l \in Loads :
        Loaded(l) =>
            \A k \in Keys(ns[l]["breathe_projects"]) :
                \E i \in DOMAIN Iterate(ns[l]["exclude_patterns"]) :
                    Under(ns[l]["breathe_projects"].v[k].v,
                          Iterate(ns[l]["exclude_patterns"])[i].v)

C8_Witness ==
    \E l \in Loads :
        /\ Loaded(l)
        /\ ns[l]["breathe_projects"].v["hyperion::mpl"].v = "_build/xml"
        /\ Iterate(ns[l]["exclude_patterns"])[1].v = "_build"

====
